---- MODULE Spec2Model ----
(***************************************************************************)
(* Model of vindstyrka_logger/log_values.py: the main loop that reads      *)
(* sen54logger lines from the serial port and, for each accepted line,     *)
(* runs ZHAReader.get_values over a fresh websocket and appends one        *)
(* record to the log file.                                                 *)
(*                                                                         *)
(* The process is a single asyncio task; pc is its position, and every     *)
(* action runs the code from one I/O wait point to the next.               *)
(***************************************************************************)
EXTENDS Integers, Sequences, FiniteSets, TLC

\* ---------------------------------------------------------------- bounds
\* number of ser.readline() calls explored
MaxReads == 2
\* non-matching websocket messages delivered during one get_values call
MaxSkips == 1
\* number of ser.readline() calls explored when termination of a call is
\* checked
LiveReads == 1

\* ------------------------------------------------------- program constants
\* clusters = [0x042a, 0xfc7e, 0x0405, 0x0402]
Clusters == <<1066, 64638, 1029, 1026>>
NumClusters == Len(Clusters)

\* ------------------------------------------------------------ input sets
\* the serial lines fed to the loop, without their line terminator; the
\* characters are the two sentinels, the separator, a blank and a data
\* character, and every branch of lines 109-113 has its lines: nothing but
\* whitespace, nothing but separators, a sentinel first (alone, after a
\* blank, before a separator or data), and data (alone, before a separator,
\* after a blank, after a separator)
RawLines ==
  { <<>>, <<" ">>,
    <<",">>, <<",", ",">>,
    <<"!">>, <<"#">>, <<" ", "!">>, <<"#", ",">>, <<"!", "d">>,
    <<"d">>, <<"d", ",">>, <<" ", "d">>, <<",", "d">> }
\* the current reading of each cluster, as the text Home Assistant returns
\* (the values of the example line of the module docstring)
Reading == <<"23.0", "81.0", "4900", "2500">>
\* type of the first inbound message / of the reply to the credential
FirstTypes == {"auth_required", "auth_ok"}
AuthReplyTypes == {"auth_ok", "auth_invalid"}

\* ------------------------------------------------------- pure functions
IsSpace(c) == c \in {" ", "\n"}

RECURSIVE LStrip(_)
LStrip(s) == IF s # <<>> /\ IsSpace(Head(s)) THEN LStrip(Tail(s)) ELSE s

RECURSIVE RStrip(_)
RStrip(s) ==
  IF s # <<>> /\ IsSpace(s[Len(s)]) THEN RStrip(SubSeq(s, 1, Len(s) - 1)) ELSE s

\* bytes.strip(): whitespace is removed at both ends
Strip(s) == RStrip(LStrip(s))

RECURSIVE RStripComma(_)
\* str.rstrip(','): every trailing separator is removed
RStripComma(s) ==
  IF s # <<>> /\ s[Len(s)] = "," THEN RStripComma(SubSeq(s, 1, Len(s) - 1)) ELSE s

\* what ser.readline() hands back: the characters and the line terminator
ReadLine(raw) == Append(raw, "\n")

\* sen54log after line 110, for a line that passed the test of line 109
Decoded(line) == RStripComma(Strip(line))

IsSentinel_OnlyBang(s) == s[1] = "!"

\* line 111: sen54log[0] in ('!', '#')
IsSentinel(s) == s[1] \in {"!", "#"}

\* ------------------------------------------------------------------ state
VARIABLES
  pc,            \* position of the task: "read", "classify", "connect",
                 \* "hello", "auth", "wait", "returned", "crashed"
  nread,         \* serial lines read so far (also the clock datetime.now())
  raw_line,      \* the bytes ser.readline() returned, until they are decoded
  sen54log,      \* main: the current serial line
  ts,            \* main: timestamp taken at line 115
  zha_values,    \* main: what get_values returned
  log_file,      \* the output file: the sequence of lines written
  logged,        \* logger calls made during the current loop iteration
  exc,           \* the uncaught exception that ended the process, or "none"
  wsOpen,        \* number of websocket connections currently open
  ncalls,        \* calls of get_values so far
  nconn,         \* websocket connections opened so far
  first_type,    \* get_values: type of the first inbound message
  auth_response, \* get_values: type of the reply to the credential
  sent,          \* messages sent on the current connection, in order
  ci,            \* get_values: clusters the for loop has taken so far
  message_id,    \* get_values: request id counter
  values,        \* get_values: results collected so far
  inbound,       \* ha_await: the last message received
  answered,      \* how each wait of the current call ended, in order
  skips          \* non-matching messages received in the current call

main_vars == <<pc, nread, raw_line, sen54log, ts, zha_values, log_file, logged, exc>>
conn_vars == <<wsOpen, ncalls, nconn>>
call_vars == <<first_type, auth_response, sent, ci, message_id, values,
               inbound, answered, skips>>
vars == <<main_vars, conn_vars, call_vars>>

\* --------------------------------------------------------------- values
\* Python's None and a returned list
None == [some |-> FALSE, vals |-> <<>>]
Some(v) == [some |-> TRUE, vals |-> v]

Truthy_NotNone(r) == r.some

\* the walrus test of line 118: None and [] are both false
Truthy(r) == r.some /\ r.vals # <<>>

NoMsg == [id |-> 0, success |-> FALSE, result |-> ""]

\* line 65: {'type': 'auth', 'access_token': token}
AuthMsg == [type |-> "auth", id |-> 0, cluster_id |-> 0]

\* lines 77-85: the read-attribute request
Request(id, cluster) ==
  [type |-> "zha/devices/clusters/attributes/value", id |-> id, cluster_id |-> cluster]

\* datetime.now(): one tick per serial read
Now(n) == n

LogLine_FixedCount(t, s, vals) == <<t, s, "ZHA", NumClusters>> \o vals

\* lines 119-120: the fields of log_line, ';' and ',' being the separators:
\* ts ; sen54log , ZHA , len(zha_values) , value0 , ... , valueN-1
LogLine(t, s, vals) == <<t, s, "ZHA", Len(vals)>> \o vals

NextId_Stuck(m) == IF m = 0 THEN 1 ELSE m

\* line 76: message_id += 1
NextId(m) == m + 1

Matches_Any(msg, id) == TRUE

\* line 49: message['id'] == message_id
Matches(msg, id) == msg.id = id

AddValue_Front(vals, msg) == <<msg.result>> \o vals

\* line 94: values.append(response['result'])
AddValue(vals, msg) == Append(vals, msg.result)

Unsuccessful_KeepValues(vals) == Some(vals)

\* line 92: a bare return
Unsuccessful(vals) == None

AuthFailed_Never(t) == FALSE

\* line 67: not auth_response['type'] == 'auth_ok'
AuthFailed(t) == ~(t = "auth_ok")

CloseWs_Leak(n) == n

\* line 61: leaving the async with block closes the connection
CloseWs(n) == n - 1

\* ------------------------------------------------------------------ Init
Init ==
  /\ pc = "read" /\ nread = 0 /\ raw_line = <<>> /\ sen54log = <<>> /\ ts = 0
  /\ zha_values = None /\ log_file = <<>> /\ logged = {} /\ exc = "none"
  /\ wsOpen = 0 /\ ncalls = 0 /\ nconn = 0
  /\ first_type = "" /\ auth_response = "" /\ sent = <<>> /\ ci = 0
  /\ message_id = 0 /\ values = <<>> /\ inbound = NoMsg /\ answered = <<>>
  /\ skips = 0

\* ------------------------------------------------------------- main loop
\* a new iteration of while(True): nothing of the previous fetch is left
NewIteration(lg) ==
  /\ zha_values' = None /\ logged' = lg
  /\ first_type' = "" /\ auth_response' = "" /\ sent' = <<>> /\ ci' = 0
  /\ message_id' = 0 /\ values' = <<>> /\ inbound' = NoMsg /\ answered' = <<>>
  /\ skips' = 0

SerialRead_Eager ==
  /\ pc \in {"read", "wait"} /\ nread < MaxReads
  /\ \E raw \in RawLines : raw_line' = ReadLine(raw)
  /\ nread' = nread + 1
  /\ NewIteration({})
  /\ pc' = "classify"
  /\ UNCHANGED <<sen54log, ts, log_file, exc, conn_vars>>

\* line 109: ser.readline() returns a line, the n-th at most
SerialReadUpTo(n) ==
  /\ pc = "read" /\ nread < n
  /\ \E raw \in RawLines : raw_line' = ReadLine(raw)
  /\ nread' = nread + 1
  /\ NewIteration({})
  /\ pc' = "classify"
  /\ UNCHANGED <<sen54log, ts, log_file, exc, conn_vars>>

\* line 109: ser.readline() returns a line
SerialRead == SerialReadUpTo(MaxReads)

\* line 109: the line is empty after strip(); read again
ReadEmpty ==
  /\ pc = "classify"
  /\ Strip(raw_line) = <<>>
  /\ sen54log' = <<>> /\ raw_line' = <<>>
  /\ pc' = "read"
  /\ UNCHANGED <<nread, ts, zha_values, log_file, logged, exc, conn_vars, call_vars>>

\* lines 110-111: nothing is left after rstrip(','), sen54log[0] raises
ReadSeparators ==
  /\ pc = "classify"
  /\ Strip(raw_line) # <<>>
  /\ Decoded(raw_line) = <<>>
  /\ sen54log' = <<>> /\ raw_line' = <<>>
  /\ pc' = "crashed" /\ exc' = "IndexError"
  /\ UNCHANGED <<nread, ts, zha_values, log_file, logged, conn_vars, call_vars>>

\* lines 111-113: informational or error message of the sensor firmware
ReadSentinel ==
  /\ pc = "classify"
  /\ Decoded(raw_line) # <<>>
  /\ IsSentinel(Decoded(raw_line))
  /\ sen54log' = Decoded(raw_line) /\ raw_line' = <<>>
  /\ logged' = logged \cup {"warning: Data error"}
  /\ pc' = "read"
  /\ UNCHANGED <<nread, ts, zha_values, log_file, exc, conn_vars, call_vars>>

\* lines 109-118: the line is accepted, stamped, and get_values is called
ReadAccepted ==
  /\ pc = "classify"
  /\ Decoded(raw_line) # <<>>
  /\ ~IsSentinel(Decoded(raw_line))
  /\ sen54log' = Decoded(raw_line) /\ raw_line' = <<>>
  /\ ts' = Now(nread)
  /\ ncalls' = ncalls + 1
  /\ pc' = "connect"
  /\ UNCHANGED <<nread, zha_values, log_file, logged, exc, wsOpen, nconn, call_vars>>

WriteRecord_Overwrite ==
  /\ pc = "returned"
  /\ Truthy(zha_values)
  /\ log_file' = <<LogLine(ts, sen54log, zha_values.vals)>>
  /\ pc' = "read"
  /\ UNCHANGED <<nread, raw_line, sen54log, ts, zha_values, logged, exc, conn_vars, call_vars>>

\* lines 118-125: a non-empty result is written as one line and flushed
WriteRecord ==
  /\ pc = "returned"
  /\ Truthy(zha_values)
  /\ log_file' = Append(log_file, LogLine(ts, sen54log, zha_values.vals))
  /\ pc' = "read"
  /\ UNCHANGED <<nread, raw_line, sen54log, ts, zha_values, logged, exc, conn_vars, call_vars>>

NoRecord_Retry ==
  /\ pc = "returned"
  /\ ~Truthy(zha_values)
  /\ ncalls' = ncalls + 1
  /\ pc' = "connect"
  /\ UNCHANGED <<nread, raw_line, sen54log, ts, zha_values, log_file, logged, exc,
                 wsOpen, nconn, call_vars>>

\* line 118: None or an empty list; nothing is written
NoRecord ==
  /\ pc = "returned"
  /\ ~Truthy(zha_values)
  /\ pc' = "read"
  /\ UNCHANGED <<nread, raw_line, sen54log, ts, zha_values, log_file, logged, exc,
                 conn_vars, call_vars>>

\* ------------------------------------------------------------ get_values
\* leaving get_values by return: the async with block closes the connection
Return(r) ==
  /\ zha_values' = r
  /\ wsOpen' = CloseWs(wsOpen)
  /\ pc' = "returned"
  /\ UNCHANGED exc

\* leaving get_values by an exception nobody catches: the connection is
\* closed, the exception leaves main and asyncio.run, the process ends
Raise(e) ==
  /\ exc' = e
  /\ wsOpen' = CloseWs(wsOpen)
  /\ pc' = "crashed"
  /\ UNCHANGED zha_values

\* lines 74-85 and 99: the for loop takes the next cluster and sends its
\* request, or is exhausted and the collected values are returned
Iterate(mid, vals) ==
  IF ci < NumClusters
  THEN /\ ci' = ci + 1
       /\ message_id' = NextId(mid)
       /\ sent' = Append(sent, Request(NextId(mid), Clusters[ci + 1]))
       /\ pc' = "wait"
       /\ UNCHANGED <<zha_values, wsOpen, exc>>
  ELSE /\ Return(Some(vals))
       /\ message_id' = mid
       /\ UNCHANGED <<ci, sent>>

\* line 61: websockets.connect succeeds
Connect ==
  /\ pc = "connect"
  /\ wsOpen' = wsOpen + 1
  /\ nconn' = nconn + 1
  /\ pc' = "hello"
  /\ UNCHANGED <<nread, raw_line, sen54log, ts, zha_values, log_file, logged, exc,
                 ncalls, call_vars>>

\* line 61: websockets.connect raises; nothing was opened
ConnectFail ==
  /\ pc = "connect"
  /\ pc' = "crashed" /\ exc' = "ConnectionError"
  /\ UNCHANGED <<nread, raw_line, sen54log, ts, zha_values, log_file, logged,
                 conn_vars, call_vars>>

RecvAuthRequired_NoWait ==
  /\ pc = "hello"
  /\ first_type' = "auth_required"
  /\ sent' = <<AuthMsg, Request(NextId(0), Clusters[1])>>
  /\ ci' = 1 /\ message_id' = NextId(0)
  /\ pc' = "wait"
  /\ UNCHANGED <<nread, raw_line, sen54log, ts, zha_values, log_file, logged, exc,
                 conn_vars, auth_response, values, inbound, answered, skips>>

\* lines 64-66: the first message is the challenge; the credential is sent
RecvAuthRequired ==
  /\ pc = "hello"
  /\ first_type' = "auth_required"
  /\ sent' = Append(sent, AuthMsg)
  /\ pc' = "auth"
  /\ UNCHANGED <<nread, raw_line, sen54log, ts, zha_values, log_file, logged, exc,
                 conn_vars, auth_response, ci, message_id, values, inbound,
                 answered, skips>>

\* lines 64, 70-85: the first message is of any other type; the if is
\* skipped and the first request goes out
RecvFirstOther ==
  /\ pc = "hello"
  /\ \E t \in FirstTypes \ {"auth_required"} : first_type' = t
  /\ values' = <<>>
  /\ Iterate(0, <<>>)
  /\ UNCHANGED <<nread, raw_line, sen54log, ts, log_file, logged, ncalls, nconn,
                 auth_response, inbound, answered, skips>>

\* lines 66-85: the credential is accepted; the first request goes out
RecvAuthOk ==
  /\ pc = "auth"
  /\ \E t \in AuthReplyTypes : ~AuthFailed(t) /\ auth_response' = t
  /\ values' = <<>>
  /\ Iterate(0, <<>>)
  /\ UNCHANGED <<nread, raw_line, sen54log, ts, log_file, logged, ncalls, nconn,
                 first_type, inbound, answered, skips>>

RecvAuthRejected_Swallowed ==
  /\ pc = "auth"
  /\ \E t \in AuthReplyTypes : AuthFailed(t) /\ auth_response' = t
  /\ logged' = logged \cup {"error: Auth failed"}
  /\ Return(None)
  /\ UNCHANGED <<nread, raw_line, sen54log, ts, log_file, ncalls, nconn,
                 first_type, sent, ci, message_id, values, inbound, answered,
                 skips>>

\* lines 66-68: the credential is rejected; raise Exception('Auth failed')
RecvAuthRejected ==
  /\ pc = "auth"
  /\ \E t \in AuthReplyTypes : AuthFailed(t) /\ auth_response' = t
  /\ Raise("Exception: Auth failed")
  /\ UNCHANGED <<nread, raw_line, sen54log, ts, log_file, logged, ncalls, nconn,
                 first_type, sent, ci, message_id, values, inbound, answered,
                 skips>>

\* the messages the server may send while a response is awaited
Messages ==
  { [id |-> i, success |-> b, result |-> IF b THEN Reading[i] ELSE ""] :
      i \in 1..NumClusters, b \in BOOLEAN }

RecvSkip_SendsNext ==
  /\ pc = "wait" /\ skips < MaxSkips /\ ci < NumClusters
  /\ \E msg \in Messages :
       /\ ~Matches(msg, message_id)
       /\ inbound' = msg
  /\ skips' = skips + 1
  /\ ci' = ci + 1
  /\ message_id' = NextId(message_id)
  /\ sent' = Append(sent, Request(NextId(message_id), Clusters[ci + 1]))
  /\ UNCHANGED <<main_vars, conn_vars, first_type, auth_response, values, answered>>

\* lines 47-50: a message with another id; ha_await receives the next one
RecvSkip ==
  /\ pc = "wait" /\ skips < MaxSkips
  /\ \E msg \in Messages :
       /\ ~Matches(msg, message_id)
       /\ inbound' = msg
  /\ skips' = skips + 1
  /\ UNCHANGED <<main_vars, conn_vars, first_type, auth_response, sent, ci,
                 message_id, values, answered>>

\* lines 89-94, 74-85, 99: the matching response is successful; its result
\* is appended and the loop goes on
RecvMatchOk ==
  /\ pc = "wait"
  /\ \E msg \in Messages :
       /\ Matches(msg, message_id)
       /\ msg.success
       /\ inbound' = msg
       /\ answered' = Append(answered, [id |-> msg.id, kind |-> "ok", result |-> msg.result])
       /\ values' = AddValue(values, msg)
       /\ Iterate(message_id, AddValue(values, msg))
  /\ UNCHANGED <<nread, raw_line, sen54log, ts, log_file, logged, ncalls, nconn,
                 first_type, auth_response, skips>>

\* lines 89-92: the matching response is unsuccessful; logged, bare return
RecvMatchFail ==
  /\ pc = "wait"
  /\ \E msg \in Messages :
       /\ Matches(msg, message_id)
       /\ ~msg.success
       /\ inbound' = msg
       /\ answered' = Append(answered, [id |-> msg.id, kind |-> "fail", result |-> ""])
  /\ logged' = logged \cup {"error: Response"}
  /\ Return(Unsuccessful(values))
  /\ UNCHANGED <<nread, raw_line, sen54log, ts, log_file, ncalls, nconn, first_type,
                 auth_response, sent, ci, message_id, values, skips>>

\* line 49: a message without an 'id' field; the KeyError is not caught
RecvMalformed ==
  /\ pc = "wait"
  /\ Raise("KeyError")
  /\ UNCHANGED <<nread, raw_line, sen54log, ts, log_file, logged, ncalls, nconn,
                 call_vars>>

Timeout_Abort ==
  /\ pc = "wait"
  /\ answered' = Append(answered, [id |-> message_id, kind |-> "timeout", result |-> ""])
  /\ logged' = logged \cup {"error: Response timed out"}
  /\ Return(None)
  /\ UNCHANGED <<nread, raw_line, sen54log, ts, log_file, ncalls, nconn, first_type,
                 auth_response, sent, ci, message_id, values, inbound, skips>>

Timeout_ResetByMessages ==
  /\ pc = "wait" /\ skips < MaxSkips
  /\ answered' = Append(answered, [id |-> message_id, kind |-> "timeout", result |-> ""])
  /\ logged' = logged \cup {"error: Response timed out"}
  /\ values' = values
  /\ Iterate(message_id, values)
  /\ UNCHANGED <<nread, raw_line, sen54log, ts, log_file, ncalls, nconn, first_type,
                 auth_response, inbound, skips>>

\* lines 89, 96-97, 74-85, 99: wait_for gives up after 5 seconds; logged,
\* nothing is appended and the loop goes on
Timeout ==
  /\ pc = "wait"
  /\ answered' = Append(answered, [id |-> message_id, kind |-> "timeout", result |-> ""])
  /\ logged' = logged \cup {"error: Response timed out"}
  /\ values' = values
  /\ Iterate(message_id, values)
  /\ UNCHANGED <<nread, raw_line, sen54log, ts, log_file, ncalls, nconn, first_type,
                 auth_response, inbound, skips>>

Next ==
  \/ SerialRead
  \/ ReadEmpty \/ ReadSeparators \/ ReadSentinel \/ ReadAccepted
  \/ WriteRecord \/ NoRecord
  \/ Connect \/ ConnectFail
  \/ RecvAuthRequired \/ RecvFirstOther \/ RecvAuthOk \/ RecvAuthRejected
  \/ RecvSkip \/ RecvMatchOk \/ RecvMatchFail \/ RecvMalformed \/ Timeout

Spec == Init /\ [][Next]_vars

TypeOK ==
  /\ pc \in {"read", "classify", "connect", "hello", "auth", "wait", "returned",
            "crashed"}
  /\ nread \in 0..MaxReads
  /\ wsOpen \in 0..1
  /\ message_id \in 0..NumClusters
  /\ ci \in 0..NumClusters
  /\ Len(values) <= NumClusters

\* ------------------------------------------------- vocabulary of the claims
IsRequest(m) == m.type = "zha/devices/clusters/attributes/value"
IsOkAnswer(a) == a.kind = "ok"

\* the cluster requests sent on the current connection, in send order
Requests == SelectSeq(sent, IsRequest)

\* the results of the matching successful responses of the current call
OkAnswers == SelectSeq(answered, IsOkAnswer)
OkResults == [i \in 1..Len(OkAnswers) |-> OkAnswers[i].result]

\* the lines of the file that carry the timestamp of the current cycle
CycleRecords == {i \in 1..Len(log_file) : log_file[i][1] = ts}

AuthRejected == auth_response # "" /\ auth_response # "auth_ok"
AllAnsweredOk ==
  /\ Len(answered) = NumClusters
  /\ \A i \in 1..NumClusters : answered[i].kind = "ok"
SomeFailed == \E i \in 1..Len(answered) : answered[i].kind = "fail"
SomeTimedOut == \E i \in 1..Len(answered) : answered[i].kind = "timeout"

\* ------------------------------------------------------------------ C1
\* C1: the step that handles a serial line whose first character is '!' or
\* '#' writes nothing to the file, calls get_values not at all (no call, no
\* connection, nothing sent) and leaves the loop at the next serial read.
C1_SentinelLineSkipped ==
  [][(pc = "classify" /\ raw_line[1] \in {"!", "#"}) =>
       /\ log_file' = log_file
       /\ ncalls' = ncalls /\ nconn' = nconn /\ wsOpen' = 0
       /\ sent' = <<>>
       /\ pc' = "read"]_vars

C1_Witness ==
  /\ nread = 2 /\ pc = "read"
  /\ sen54log = <<"#">>
  /\ logged = {"warning: Data error"}
  /\ Len(log_file) = 1 /\ ncalls = 1

\* ------------------------------------------------------------------ C2
\* C2: when authentication succeeded and all 4 requests got a matching
\* successful response, get_values returns the 4 results in request order and
\* the loop writes exactly one line for the serial line: its count field is 4
\* and the 4 results follow in the order PM2.5, VOC index, humidity,
\* temperature.
C2_FullCycleRecord ==
  (auth_response = "auth_ok" /\ AllAnsweredOk) =>
    /\ \A k \in 1..NumClusters :
         /\ Requests[k].cluster_id = Clusters[k]
         /\ answered[k].id = Requests[k].id
    /\ pc \in {"returned", "read"}
    /\ zha_values = Some(OkResults)
    /\ pc = "returned" => CycleRecords = {}
    /\ pc = "read" =>
         /\ CycleRecords = {Len(log_file)}
         /\ log_file[Len(log_file)] =
              <<ts, sen54log, "ZHA", 4, answered[1].result, answered[2].result,
                answered[3].result, answered[4].result>>

C2_Witness ==
  /\ pc = "read" /\ auth_response = "auth_ok" /\ AllAnsweredOk
  /\ sen54log = <<",", "d">>
  /\ Len(log_file) = 2

\* ------------------------------------------------------------------ C3
\* C3: when the reply to the credential is not 'auth_ok', no cluster request
\* was sent on the connection, the file has no line of that cycle, and the
\* connection is closed once control has left get_values.
C3_AuthRejectedNoRequests ==
  AuthRejected =>
    /\ Requests = <<>>
    /\ sent = <<AuthMsg>>
    /\ CycleRecords = {}
    /\ pc \notin {"hello", "auth", "wait"}
    /\ wsOpen = 0

C3_Witness ==
  /\ AuthRejected /\ wsOpen = 0 /\ nconn = 2 /\ Len(log_file) = 1

\* ------------------------------------------------------------------ C4
\* C4: when the matching response for cluster k is unsuccessful, no request
\* for clusters k+1..4 is sent, get_values returns None whatever it had
\* collected, and no line of that cycle is written.
C4_UnsuccessfulAborts ==
  SomeFailed =>
    /\ answered[Len(answered)].kind = "fail"
    /\ \A i \in 1..(Len(answered) - 1) : answered[i].kind # "fail"
    /\ Len(Requests) = Len(answered)
    /\ Requests[Len(Requests)].id = answered[Len(answered)].id
    /\ pc \in {"returned", "read"}
    /\ zha_values = None
    /\ CycleRecords = {}

C4_Witness ==
  /\ SomeFailed /\ pc = "read" /\ Len(answered) = 3 /\ Len(values) = 2

\* ------------------------------------------------------------------ C5
\* C5: when a per-cluster wait timed out during the cycle, no line of that
\* cycle is in the file.
C5_NoRecordAfterTimeout ==
  SomeTimedOut => CycleRecords = {}

\* ------------------------------------------------------------------ C6
\* C6: every line written has a count field equal to the number of values
\* after it and to the number of requests of the cycle that got a matching
\* successful response; the values are those results in request order, the
\* requests being the clusters in their fixed order.
C6_CountMatchesValues ==
  [][log_file' # log_file =>
       LET rec == log_file'[Len(log_file')] IN
         /\ log_file' = Append(log_file, rec)
         /\ rec[4] = Len(rec) - 4
         /\ rec[4] = Len(OkAnswers)
         /\ SubSeq(rec, 5, Len(rec)) = OkResults
         /\ \A i \in 1..Len(OkAnswers) :
              Requests[OkAnswers[i].id].cluster_id = Clusters[OkAnswers[i].id]
         /\ \A i, j \in 1..Len(OkAnswers) :
              i < j => OkAnswers[i].id < OkAnswers[j].id]_vars

C6_Witness ==
  /\ pc = "read" /\ SomeTimedOut /\ skips > 0
  /\ Len(OkAnswers) = 2 /\ OkAnswers[1].id = 2 /\ OkAnswers[2].id = 4
  /\ CycleRecords = {Len(log_file)}
  /\ log_file[Len(log_file)][4] = 2

\* ------------------------------------------------------------------ C7
\* C7: a call of get_values opens exactly one connection (none when the
\* connect itself raises), at most one connection is open at any time, and
\* none is open once control has left get_values by a return or an
\* exception: while the loop reads the serial port or writes the file.
C7_ConnectionScoped ==
  /\ wsOpen \in {0, 1}
  /\ pc \in {"hello", "auth", "wait"} <=> wsOpen = 1
  /\ pc \in {"read", "classify", "connect", "returned", "crashed"} <=> wsOpen = 0
  /\ nconn = ncalls - (IF pc = "connect" \/ exc = "ConnectionError" THEN 1 ELSE 0)

C7_Witness ==
  /\ pc = "returned" /\ wsOpen = 0 /\ nconn = 2 /\ ncalls = 2 /\ SomeFailed

\* ------------------------------------------------------------------ C8
\* C8: on one connection the k-th cluster request carries id k: the ids in
\* send order are 1, 2, 3, ... without repeat or gap, whatever timed out
\* before, and they start at 1 again in every call.
C8_SequentialIds ==
  /\ \A k \in 1..Len(Requests) : Requests[k].id = k
  /\ Len(Requests) = message_id
  /\ Len(Requests) = ci

C8_Witness ==
  /\ ncalls = 2 /\ pc = "wait"
  /\ Len(Requests) = 3 /\ Requests[3].id = 3
  /\ Len(answered) = 2 /\ answered[1].kind = "timeout"

\* ------------------------------------------------------------------ C9
\* C9 as stated: a cluster request is on the wire only after the challenge
\* was the first inbound message, the credential was sent and 'auth_ok' was
\* received.
C9_RequestsOnlyAfterAuth ==
  Requests # <<>> =>
    /\ first_type = "auth_required"
    /\ sent[1] = AuthMsg
    /\ auth_response = "auth_ok"

\* C9 amended: when the first inbound message is the challenge, a cluster
\* request is on the wire only after the credential was sent and 'auth_ok'
\* was received; when the first inbound message has another type, the
\* requests are sent without any authentication exchange.  A call goes
\* connect -> hello -> (auth ->) wait -> closed.
C9_RequestsAfterAuthWhenChallenged ==
  /\ (Requests # <<>> /\ first_type = "auth_required") =>
       /\ sent[1] = AuthMsg
       /\ auth_response = "auth_ok"
  /\ (Requests # <<>> /\ first_type # "auth_required") =>
       /\ first_type # ""
       /\ \A i \in 1..Len(sent) : sent[i] # AuthMsg
       /\ auth_response = ""
  /\ pc = "hello" => first_type = "" /\ sent = <<>>
  /\ pc = "auth" => first_type = "auth_required" /\ sent = <<AuthMsg>> /\ auth_response = ""
  /\ pc = "wait" => Requests # <<>>

C9_Witness ==
  /\ pc = "wait" /\ first_type = "auth_required" /\ auth_response = "auth_ok"
  /\ Len(Requests) = NumClusters

\* ------------------------------------------------------------------ C10
\* C10 as stated: after a rejected authentication the failure is logged and
\* the process is still running (the loop goes on to the next serial line).
C10_LoopContinuesAfterAuthRejected ==
  AuthRejected => (pc # "crashed" /\ logged # {})

\* C10 amended: a rejected authentication raises an exception that nothing
\* catches: the logger is not called, no line of the cycle is written, the
\* connection is closed and the process terminates; no further serial line is
\* read.
C10_AuthRejectedTerminates ==
  /\ AuthRejected =>
       /\ pc = "crashed"
       /\ exc = "Exception: Auth failed"
       /\ logged = {}
       /\ CycleRecords = {}
       /\ wsOpen = 0
  /\ pc = "crashed" => ~ENABLED Next

C10_Witness ==
  /\ AuthRejected /\ pc = "crashed" /\ nread = 1

\* ------------------------------------------------------------------ C11
\* C11: get_values is called once for every accepted serial line and only
\* then; when it has returned, the loop writes exactly one line if the result
\* is a non-empty list and nothing if it is None or an empty list, and in
\* both cases goes back to the serial read without calling get_values again.
C11_OneFetchOneRecord ==
  [][/\ (pc = "classify" /\ pc' = "connect") => ncalls' = ncalls + 1
     /\ (ncalls' # ncalls \/ pc' = "connect") => (pc = "classify" /\ pc' = "connect")
     /\ pc = "returned" =>
          /\ pc' = "read" /\ ncalls' = ncalls /\ nread' = nread
          /\ IF zha_values.some /\ zha_values.vals # <<>>
             THEN /\ Len(log_file') = Len(log_file) + 1
                  /\ SubSeq(log_file', 1, Len(log_file)) = log_file
                  /\ log_file'[Len(log_file')][1] = ts
                  /\ log_file'[Len(log_file')][2] = sen54log
             ELSE log_file' = log_file
     /\ log_file' # log_file => pc = "returned"]_vars

C11_Witness ==
  /\ pc = "read" /\ ncalls = 2 /\ nread = 2
  /\ zha_values = Some(<<>>)
  /\ Len(log_file) = 1 /\ CycleRecords = {}

\* ------------------------------------------------------------------ C12
\* C12: a serial line is read only when no fetch is in progress: from the
\* acceptance of a line to the end of its fetch cycle and the write that
\* follows, nothing is read and no other call starts, so the cycles do not
\* overlap; the lines of the file are in the order in which their serial
\* lines were read.
C12_StrictlySequential ==
  [][/\ nread' # nread =>
          /\ pc = "read" /\ wsOpen = 0 /\ nread' = nread + 1
     /\ pc \in {"classify", "connect", "hello", "auth", "wait", "returned"} =>
          nread' = nread
     /\ ncalls' # ncalls => (wsOpen = 0 /\ nconn = ncalls)
     /\ \A i, j \in 1..Len(log_file') :
          i < j => log_file'[i][1] < log_file'[j][1]
     /\ \A i \in 1..Len(log_file') : log_file'[i][1] <= nread']_vars

C12_Witness ==
  /\ pc = "read" /\ Len(log_file) = 2
  /\ log_file[1][1] = 1 /\ log_file[2][1] = 2
  /\ log_file[1][2] # log_file[2][2]
  /\ SomeTimedOut /\ skips > 0

\* ------------------------------------------------------------------ C14
\* the waits of the current call that ended by the timeout
TimedOut == {i \in 1..Len(answered) : answered[i].kind = "timeout"}

\* C14: the step in which the wait for cluster k times out logs the timeout,
\* leaves the collected values as they are (no value, no placeholder) and
\* goes on: for k < 4 the request for cluster k+1 is sent with id k+1, for
\* k = 4 the values are returned.  A call that returns a list returns one
\* entry less than the 4 clusters for every wait that timed out.
C14_TimeoutDoesNotAbort ==
  [][/\ (Len(answered') = Len(answered) + 1
          /\ answered'[Len(answered')].kind = "timeout") =>
          LET k == Len(answered') IN
            /\ answered'[k].id = k
            /\ values' = values
            /\ "error: Response timed out" \in logged'
            /\ IF k < NumClusters
               THEN /\ pc' = "wait"
                    /\ Requests' = Append(Requests, Request(k + 1, Clusters[k + 1]))
               ELSE /\ pc' = "returned"
                    /\ Requests' = Requests
                    /\ zha_values' = Some(values)
     /\ (pc = "wait" /\ pc' = "returned" /\ zha_values'.some) =>
          /\ Len(answered') = NumClusters
          /\ Len(zha_values'.vals) = NumClusters - Cardinality(TimedOut')]_vars

C14_Witness ==
  /\ pc = "returned" /\ Len(Requests) = NumClusters
  /\ TimedOut = {1, 3}
  /\ zha_values = Some(<<Reading[2], Reading[4]>>)
  /\ Requests[2].id = 2 /\ Requests[4].id = 4

\* ------------------------------------------------------------------ C15
\* C15: a value is appended only in a step that receives a successful message
\* whose id is the id of the request being awaited, and it is that message's
\* result; a message with any other id changes neither the values nor the
\* wait.  So the value recorded for a cluster is never the result of a late
\* response to an earlier request.
C15_OnlyMatchingIdRecorded ==
  [][/\ (pc = "wait" /\ values' # values) =>
          /\ inbound'.id = message_id
          /\ inbound'.id = Requests[Len(Requests)].id
          /\ inbound'.success
          /\ values' = Append(values, inbound'.result)
     /\ (pc = "wait" /\ (skips' # skips \/ inbound' # inbound)
          /\ inbound'.id # message_id) =>
          /\ values' = values /\ answered' = answered
          /\ sent' = sent /\ message_id' = message_id
          /\ pc' = "wait"
     /\ Len(values') = Len(OkAnswers')
     /\ \A i \in 1..Len(values') : values'[i] = Reading[OkAnswers'[i].id]]_vars

C15_Witness ==
  /\ pc = "wait" /\ message_id = 2
  /\ answered = <<[id |-> 1, kind |-> "timeout", result |-> ""]>>
  /\ inbound = [id |-> 1, success |-> TRUE, result |-> Reading[1]]
  /\ values = <<>>

\* ------------------------------------------------------------------ C16
\* C16: a step sends at most one request, for the next cluster in the fixed
\* order, and only when the wait of every request sent before has ended, the
\* last one in this very step by a matching successful response or by the
\* timeout; at any time at most one request is waiting for its response.
C16_OneRequestAtATime ==
  [][/\ Len(Requests') > Len(Requests) =>
          /\ Len(Requests') = Len(Requests) + 1
          /\ Requests'[Len(Requests')].cluster_id = Clusters[Len(Requests')]
          /\ Len(answered') = Len(Requests)
          /\ Requests # <<>> =>
               /\ pc = "wait"
               /\ Len(answered') = Len(answered) + 1
               /\ answered'[Len(answered')].kind \in {"ok", "timeout"}
          /\ pc' = "wait"
     /\ Len(Requests') - Len(answered') \in {0, 1}
     /\ pc' = "wait" => Len(Requests') = Len(answered') + 1]_vars

C16_Witness ==
  /\ pc = "wait" /\ Len(Requests) = 3 /\ Len(answered) = 2
  /\ answered[1].kind = "ok" /\ answered[2].kind = "timeout"
  /\ skips > 0

\* ------------------------------------------------------------------ C17
\* lines 47-50: the server keeps sending messages with other ids; skips has
\* reached its bound and stays there, the stream need not end
RecvSkipStream ==
  /\ pc = "wait" /\ skips = MaxSkips
  /\ \E msg \in Messages :
       /\ ~Matches(msg, message_id)
       /\ inbound' = msg
  /\ UNCHANGED <<main_vars, conn_vars, first_type, auth_response, sent, ci,
                 message_id, values, answered, skips>>

\* line 109, for the runs in which termination of a call is checked
LiveSerialRead == SerialReadUpTo(LiveReads)

LiveNext ==
  \/ LiveSerialRead
  \/ ReadEmpty \/ ReadSeparators \/ ReadSentinel \/ ReadAccepted
  \/ WriteRecord \/ NoRecord
  \/ Connect \/ ConnectFail
  \/ RecvAuthRequired \/ RecvFirstOther \/ RecvAuthOk \/ RecvAuthRejected
  \/ RecvSkip \/ RecvSkipStream \/ RecvMatchOk \/ RecvMatchFail \/ RecvMalformed
  \/ Timeout

\* line 89: the timer of asyncio.wait_for runs for the whole of ha_await and
\* fires if the wait does not end before
LiveSpec == Init /\ [][LiveNext]_vars /\ WF_vars(Timeout)

\* C17: a call that is waiting for a response leaves get_values, by a return
\* or an exception, even when messages with other ids never stop arriving;
\* no call waits more than 4 times.
C17_CallEnds ==
  /\ (pc = "wait") ~> (pc \in {"returned", "crashed"})
  /\ [](pc = "wait" => Len(answered) < NumClusters)

C17_Witness ==
  /\ pc = "returned" /\ skips = MaxSkips
  /\ TimedOut = 1..NumClusters
  /\ inbound.id = 1

\* ------------------------------------------------------------------ C18
\* C18: every step leaves the file as it is or appends one complete line to
\* it (timestamp, serial line, ZHA, count, values): what was written stays a
\* prefix of the file.  The steps that handle an empty line, a sentinel line
\* or a fetch that returned nothing leave the file as it is.
C18_AppendOnly ==
  [][/\ \/ log_file' = log_file
        \/ /\ Len(log_file') = Len(log_file) + 1
           /\ SubSeq(log_file', 1, Len(log_file)) = log_file
           /\ LET rec == log_file'[Len(log_file')] IN
                /\ Len(rec) >= 4
                /\ rec[3] = "ZHA"
                /\ Len(rec) = 4 + rec[4]
     /\ (pc = "classify" /\ pc' = "read") => log_file' = log_file
     /\ (pc = "returned" /\ ~zha_values.some) => log_file' = log_file]_vars

C18_Witness ==
  /\ pc = "read" /\ Len(log_file) = 2
  /\ Len(log_file[1]) = 8 /\ Len(log_file[2]) = 5
  /\ log_file[1][2] = <<"d">> /\ log_file[2][2] = <<",", "d">>

\* ------------------------------------------------------------------ C19
\* C19: the count field of every line of the file is between 1 and 4; a
\* cycle whose four waits all timed out returns an empty list and has no line
\* in the file.
C19_CountBetween1And4 ==
  /\ \A i \in 1..Len(log_file) : log_file[i][4] \in 1..NumClusters
  /\ TimedOut = 1..NumClusters =>
       /\ pc \in {"returned", "read"}
       /\ zha_values = Some(<<>>)
       /\ CycleRecords = {}

C19_Witness ==
  /\ pc = "read" /\ TimedOut = 1..NumClusters
  /\ Len(log_file) = 1 /\ log_file[1][4] = 1

\* ------------------------------------------------------------------ C20
\* C20: the step that handles a serial line that is not empty after strip()
\* either rejects it as a data error (back to the serial read, with the
\* warning logged) or accepts it and calls get_values; it never ends the
\* process.
C20_EveryLineClassified ==
  [][(pc = "classify" /\ Strip(raw_line) # <<>>) =>
       \/ /\ pc' = "read"
          /\ "warning: Data error" \in logged'
          /\ sen54log'[1] \in {"!", "#"}
       \/ /\ pc' = "connect"
          /\ ncalls' = ncalls + 1]_vars
====
